---- MODULE Spec2Model ----
(***************************************************************************)
(* A model of the Konfiguration API helpers of kubecfg-operator            *)
(* (api/v1/konfiguration_utils.go) and of the reconciliation loop that     *)
(* consumes them.                                                          *)
(***************************************************************************)
EXTENDS Integers, Sequences, FiniteSets, TLC

VARIABLES
    k,          \* the Konfiguration object the accessors are called on (*Konfiguration)
    spec0,      \* k.Spec as it was at construction
    ret,        \* the value returned by the last call
    calls,      \* number of GetSourceRef calls made so far
    secrets,    \* the Secrets the client can read, by namespaced name
    cluster,    \* the other Konfigurations that exist, by namespaced name
    readyOf,    \* whether the Ready condition of each of them is True
    phase,      \* the state of the reconcile scheduler for k
    gate,       \* the dependency gate's resolution in progress
    attempt,    \* the reconciliation attempt in progress (ephemeral)
    status,     \* k's Status subresource
    live,       \* the objects that exist in the target cluster
    opCalls,    \* the engines called since the last scheduler tick
    outcome,    \* how the last scheduler tick ended
    requeue     \* the delay the last scheduler tick returned

\* the state of the reconciliation loop
ctlVars == <<cluster, readyOf, phase, gate, attempt, status, live, opCalls,
             outcome, requeue>>
vars == <<k, spec0, ret, calls, secrets, ctlVars>>

----------------------------------------------------------------------------
(* Bounds of the model *)

\* durations range over 0..MaxDur
MaxDur == 1
\* dependsOn lists have at most MaxDeps entries
MaxDeps == 2
\* GetSourceRef is called at most MaxCalls times in one behaviour
MaxCalls == 2
\* the dependency graph has at most MaxUnits Konfigurations, k included
MaxUnits == 3
\* source revisions range over 1..MaxRev
MaxRev == 2
\* the user edits the spec at most MaxGen - 1 times (generation 1..MaxGen)
MaxGen == 2
\* each mapping of spec.variables has at most MaxVars entries
MaxVars == 2

----------------------------------------------------------------------------
(* Values *)

\* a nil pointer
Nil == [nil |-> TRUE]

Durations == 0..MaxDur
Namespaces == {"ns1", "ns2"}

\* metav1.Duration
MetaDuration(d) == [Duration |-> d]

\* *metav1.Duration
OptDurations == {Nil} \cup {MetaDuration(d) : d \in Durations}

\* *CrossNamespaceSourceReference
SourceRefs ==
    {Nil} \cup [Kind : {"GitRepository", "Bucket"},
                Name : {"src"},
                Namespace : {""} \cup Namespaces]

\* dependency.CrossNamespaceDependencyReference
DepRefs == [Name : {"b"}, Namespace : {"", "ns2"}]

\* sequences over S of length at most n
SeqsUpTo(S, n) == UNION {[1..m -> S] : m \in 0..n}

\* *KubeConfig: the accessors are called on Konfigurations without one, Fetch
\* on Konfigurations with one (FetchKonfiguration)
KubeConfigs == {Nil}

\* *Variables
NoVariables == Nil

\* KonfigurationSpec
KonfigurationSpecs ==
    [Interval : {MetaDuration(d) : d \in Durations},
     RetryInterval : OptDurations,
     Timeout : OptDurations,
     KubeConfig : KubeConfigs,
     Path : {"main.jsonnet"},
     Variables : {NoVariables},
     KubecfgArgs : {<<>>},
     Prune : {TRUE},
     Validate : {TRUE},
     Suspend : BOOLEAN,
     DiffStrategy : {"subset"},
     DependsOn : SeqsUpTo(DepRefs, MaxDeps),
     SourceRef : SourceRefs]

\* Konfiguration (ObjectMeta namespace and name, and the spec)
Konfigurations ==
    [Namespace : Namespaces, Name : {"a"}, Generation : {1},
     Spec : KonfigurationSpecs]

----------------------------------------------------------------------------
(* The accessors, konfiguration_utils.go *)

GetInterval(x) == x.Spec.Interval.Duration

GetRetryInterval_ZeroIsUnset(x) ==
    IF x.Spec.RetryInterval # Nil /\ x.Spec.RetryInterval.Duration # 0
    THEN x.Spec.RetryInterval.Duration
    ELSE GetInterval(x)

GetRetryInterval(x) ==
    IF x.Spec.RetryInterval # Nil
    THEN x.Spec.RetryInterval.Duration
    ELSE GetInterval(x)

GetTimeout_UsesRetry(x) ==
    IF x.Spec.Timeout # Nil
    THEN x.Spec.Timeout.Duration
    ELSE GetRetryInterval(x)

GetTimeout(x) ==
    IF x.Spec.Timeout # Nil
    THEN x.Spec.Timeout.Duration
    ELSE GetInterval(x)

GetKubeConfig(x) == x.Spec.KubeConfig

GetPath(x) == x.Spec.Path

GetVariables(x) == x.Spec.Variables

GetKubecfgArgs(x) == x.Spec.KubecfgArgs

GCEnabled(x) == x.Spec.Prune

ValidateEnabled(x) == x.Spec.Validate

IsSuspended_ReadsPrune(x) == x.Spec.Prune

IsSuspended(x) == x.Spec.Suspend

GetDiffStrategy(x) == x.Spec.DiffStrategy

\* ObjectMeta.GetNamespace
GetNamespace(x) == x.Namespace

GetDependsOn_SwappedIdentity(x) ==
    [id |-> [Namespace |-> x.Name, Name |-> x.Namespace],
     deps |-> x.Spec.DependsOn]

GetDependsOn_DropsDeps(x) ==
    [id |-> [Namespace |-> x.Namespace, Name |-> x.Name],
     deps |-> <<>>]

\* value receiver: returns the identity and the declared list as it is
GetDependsOn(x) ==
    [id |-> [Namespace |-> x.Namespace, Name |-> x.Name],
     deps |-> x.Spec.DependsOn]

GetSourceRef_NoDefault(x) ==
    IF x.Spec.SourceRef # Nil
    THEN [k |-> x, ret |-> x.Spec.SourceRef]
    ELSE [k |-> x, ret |-> Nil]

\* pointer receiver: k is the object after the call, ret the returned pointer's
\* target (the object's own SourceRef)
GetSourceRef(x) ==
    IF x.Spec.SourceRef # Nil
    THEN LET y == IF x.Spec.SourceRef.Namespace = ""
                  THEN [x EXCEPT !.Spec.SourceRef.Namespace = GetNamespace(x)]
                  ELSE x
         IN [k |-> y, ret |-> y.Spec.SourceRef]
    ELSE [k |-> x, ret |-> Nil]

----------------------------------------------------------------------------
(* The namespace a dependency reference resolves to (data model: "namespace  *)
(* defaults to own")                                                        *)

DepKey(id, d) ==
    [Namespace |-> IF d.Namespace = "" THEN id.Namespace ELSE d.Namespace,
     Name |-> d.Name]

----------------------------------------------------------------------------
(* The reconciliation loop at rest: no other unit, nothing applied *)

NoGate == [stack |-> <<>>, visited |-> {}, notReady |-> FALSE,
           steps |-> 0, result |-> "none"]

NoAttempt == [rev |-> 0, desired |-> {}, ops |-> {}, apply |-> "none",
              prune |-> "none", result |-> "none", reason |-> "none",
              prev |-> "none", snapshotBefore |-> Nil]

\* KonfigurationStatus of a Konfiguration not yet reconciled
NoStatus == [observedGeneration |-> 0, lastAppliedRevision |-> 0,
             lastAttemptedRevision |-> 0, ready |-> "Unknown",
             reason |-> "Progressing", snapshot |-> Nil]

InitIdle ==
    /\ cluster = <<>>
    /\ readyOf = <<>>
    /\ phase = "Idle"
    /\ gate = NoGate
    /\ attempt = NoAttempt
    /\ status = NoStatus
    /\ live = {}
    /\ opCalls = {}
    /\ outcome = "None"
    /\ requeue = 0

----------------------------------------------------------------------------
(* Secrets and KubeConfig.Fetch *)

\* a Secret that does not exist
Absent == [absent |-> TRUE]

SecretNames == {"kc"}
SecretKeys == [Name : SecretNames, Namespace : Namespaces]
DataKeys == {"value", "token"}
Bytes == {"", "cfg"}

\* corev1.Secret.Data: nil, or a map from key to bytes
SecretData == {Nil} \cup UNION {[S -> Bytes] : S \in SUBSET DataKeys}
SecretVals == {Absent} \cup [Data : SecretData]

\* the outcomes of the client's Get other than the object's presence
Faults == {"none", "Unavailable"}

\* client.Client.Get(ctx, nn, &secret): an error, or the Secret found at nn
ClientGet(store, nn, fault) ==
    IF fault # "none" THEN [err |-> fault]
    ELSE IF store[nn] = Absent THEN [err |-> "NotFound"]
    ELSE [err |-> "nil", secret |-> store[nn]]

Fetch_MissingKeyIsEmpty(kc, store, namespace, fault) ==
    LET nn == [Name |-> kc.SecretRef.Name, Namespace |-> namespace]
        got == ClientGet(store, nn, fault)
    IN IF got.err # "nil" THEN [nn |-> nn, val |-> "", err |-> got.err]
       ELSE IF got.secret.Data = Nil
            THEN [nn |-> nn, val |-> "", err |-> "contains no data"]
       ELSE IF "value" \notin DOMAIN got.secret.Data
            THEN [nn |-> nn, val |-> "", err |-> "nil"]
       ELSE [nn |-> nn, val |-> got.secret.Data["value"], err |-> "nil"]

Fetch(kc, store, namespace, fault) ==
    LET nn == [Name |-> kc.SecretRef.Name, Namespace |-> namespace]
        got == ClientGet(store, nn, fault)
    IN IF got.err # "nil" THEN [nn |-> nn, val |-> "", err |-> got.err]
       ELSE IF got.secret.Data = Nil
            THEN [nn |-> nn, val |-> "", err |-> "contains no data"]
       ELSE IF "value" \notin DOMAIN got.secret.Data
            THEN [nn |-> nn, val |-> "", err |-> "contains no 'value' key"]
       ELSE [nn |-> nn, val |-> got.secret.Data["value"], err |-> "nil"]

\* k.GetKubeConfig().Fetch(ctx, c, namespace), for any namespace the caller passes
CallFetch ==
    /\ GetKubeConfig(k) # Nil
    /\ \E namespace \in Namespaces, fault \in Faults :
          LET r == Fetch(GetKubeConfig(k), secrets, namespace, fault)
          IN ret' = [op |-> "Fetch", namespace |-> namespace, fault |-> fault,
                     nn |-> r.nn, val |-> r.val, err |-> r.err]
    /\ UNCHANGED <<k, spec0, calls, secrets, ctlVars>>

\* a Konfiguration with a kubeConfig, in namespace ns
FetchKonfiguration(ns) ==
    [Namespace |-> ns, Name |-> "a", Generation |-> 1,
     Spec |-> [Interval |-> MetaDuration(1), RetryInterval |-> Nil,
               Timeout |-> Nil, KubeConfig |-> [SecretRef |-> [Name |-> "kc"]],
               Path |-> "main.jsonnet", Variables |-> NoVariables,
               KubecfgArgs |-> <<>>, Prune |-> TRUE, Validate |-> TRUE,
               Suspend |-> FALSE, DiffStrategy |-> "subset",
               DependsOn |-> <<>>, SourceRef |-> Nil]]

InitFetch ==
    /\ k \in {FetchKonfiguration(ns) : ns \in Namespaces}
    /\ spec0 = k.Spec
    /\ ret = [op |-> "none", val |-> Nil]
    /\ calls = 0
    /\ secrets \in [SecretKeys -> SecretVals]
    /\ InitIdle

NextFetch == CallFetch

SpecFetch == InitFetch /\ [][NextFetch]_vars

----------------------------------------------------------------------------
(* Calls of the accessors on k *)

Returned(op, v) == [op |-> op, val |-> v]

CallGetInterval ==
    /\ ret' = Returned("GetInterval", GetInterval(k))
    /\ UNCHANGED <<k, spec0, calls, secrets, ctlVars>>

CallGetRetryInterval ==
    /\ ret' = Returned("GetRetryInterval", GetRetryInterval(k))
    /\ UNCHANGED <<k, spec0, calls, secrets, ctlVars>>

CallGetTimeout ==
    /\ ret' = Returned("GetTimeout", GetTimeout(k))
    /\ UNCHANGED <<k, spec0, calls, secrets, ctlVars>>

CallGetKubeConfig ==
    /\ ret' = Returned("GetKubeConfig", GetKubeConfig(k))
    /\ UNCHANGED <<k, spec0, calls, secrets, ctlVars>>

CallGetPath ==
    /\ ret' = Returned("GetPath", GetPath(k))
    /\ UNCHANGED <<k, spec0, calls, secrets, ctlVars>>

CallGetVariables ==
    /\ ret' = Returned("GetVariables", GetVariables(k))
    /\ UNCHANGED <<k, spec0, calls, secrets, ctlVars>>

CallGetKubecfgArgs ==
    /\ ret' = Returned("GetKubecfgArgs", GetKubecfgArgs(k))
    /\ UNCHANGED <<k, spec0, calls, secrets, ctlVars>>

CallGCEnabled ==
    /\ ret' = Returned("GCEnabled", GCEnabled(k))
    /\ UNCHANGED <<k, spec0, calls, secrets, ctlVars>>

CallValidateEnabled ==
    /\ ret' = Returned("ValidateEnabled", ValidateEnabled(k))
    /\ UNCHANGED <<k, spec0, calls, secrets, ctlVars>>

CallIsSuspended ==
    /\ ret' = Returned("IsSuspended", IsSuspended(k))
    /\ UNCHANGED <<k, spec0, calls, secrets, ctlVars>>

CallGetDiffStrategy ==
    /\ ret' = Returned("GetDiffStrategy", GetDiffStrategy(k))
    /\ UNCHANGED <<k, spec0, calls, secrets, ctlVars>>

CallGetDependsOn ==
    /\ ret' = Returned("GetDependsOn", GetDependsOn(k))
    /\ UNCHANGED <<k, spec0, calls, secrets, ctlVars>>

CallGetSourceRef ==
    /\ calls < MaxCalls
    /\ k' = GetSourceRef(k).k
    /\ ret' = Returned("GetSourceRef", GetSourceRef(k).ret)
    /\ calls' = calls + 1
    /\ UNCHANGED <<spec0, secrets, ctlVars>>

----------------------------------------------------------------------------
(* The accessors called in any order on any Konfiguration *)

Init ==
    /\ k \in Konfigurations
    /\ spec0 = k.Spec
    /\ ret = [op |-> "none", val |-> Nil]
    /\ calls = 0
    /\ secrets = [nn \in SecretKeys |-> Absent]
    /\ InitIdle

Next ==
    \/ CallGetInterval
    \/ CallGetRetryInterval
    \/ CallGetTimeout
    \/ CallGetKubeConfig
    \/ CallGetPath
    \/ CallGetVariables
    \/ CallGetKubecfgArgs
    \/ CallGCEnabled
    \/ CallValidateEnabled
    \/ CallIsSuspended
    \/ CallGetDiffStrategy
    \/ CallGetDependsOn
    \/ CallGetSourceRef

Spec == Init /\ [][Next]_vars

----------------------------------------------------------------------------
(* Dependency gate: isReady(unit) -> Ready | NotReady | Cycle                *)

\* the namespaced name of k (the identity GetDependsOn returns)
Self == GetDependsOn(k).id

\* the Konfiguration stored under a namespaced name
KonfigAt(key) == IF key = Self THEN k ELSE cluster[key]

\* the gate starts a resolution for k
GateStart ==
    [stack |-> <<[node |-> Self, idx |-> 1]>>, visited |-> {Self},
     notReady |-> FALSE, steps |-> 0, result |-> "none"]

\* one step of the depth-first walk: look at the next reference of the unit on
\* top of the stack, or return from a unit whose references are all done
GateWalk(g) ==
    LET n == Len(g.stack)
        top == g.stack[n]
        got == GetDependsOn(KonfigAt(top.node))
        advanced == [g.stack EXCEPT ![n].idx = top.idx + 1]
    IN IF top.idx > Len(got.deps)
       THEN \* every reference of top is resolved: return to its parent
            [g EXCEPT !.stack = SubSeq(g.stack, 1, n - 1),
                      !.steps = g.steps + 1,
                      !.result = IF n > 1 THEN "none"
                                 ELSE IF g.notReady THEN "NotReady"
                                 ELSE "Ready"]
       ELSE LET d == DepKey(got.id, got.deps[top.idx])
                \* an entry of the requesting unit that is missing or not Ready
                unready == /\ n = 1
                           /\ \/ d \notin DOMAIN cluster
                              \/ ~readyOf[d]
            IN IF d \in {g.stack[i].node : i \in 1..n}
               THEN \* d is already on the current path
                    [g EXCEPT !.steps = g.steps + 1, !.result = "Cycle"]
               ELSE IF d \notin DOMAIN cluster \/ d \in g.visited
               THEN \* nothing to walk below d
                    [g EXCEPT !.stack = advanced,
                              !.notReady = g.notReady \/ unready,
                              !.steps = g.steps + 1]
               ELSE [g EXCEPT !.stack = Append(advanced, [node |-> d, idx |-> 1]),
                              !.visited = g.visited \cup {d},
                              !.notReady = g.notReady \/ unready,
                              !.steps = g.steps + 1]

GateStep ==
    /\ phase = "Gating"
    /\ gate.result = "none"
    /\ gate' = GateWalk(gate)
    /\ UNCHANGED <<k, spec0, ret, calls, secrets, cluster, readyOf, phase,
                   attempt, status, live, opCalls, outcome, requeue>>

\* the fixed delay after which a gated unit is looked at again; it is neither
\* interval nor retryInterval
GateBackoff == MaxDur + 1

\* the gate's verdict: on Ready the attempt goes on to render, otherwise the
\* unit goes back to Idle with its Snapshot untouched
GateDone ==
    /\ phase = "Gating"
    /\ gate.result # "none"
    /\ IF gate.result = "Ready"
       THEN /\ phase' = "Rendering"
            /\ UNCHANGED <<status, outcome, requeue>>
       ELSE /\ phase' = "Idle"
            /\ status' = [status EXCEPT
                            !.ready = "Unknown",
                            !.reason = IF gate.result = "Cycle"
                                       THEN "DependencyCycle"
                                       ELSE "DependencyNotReady"]
            /\ outcome' = "Gated"
            /\ requeue' = GateBackoff
    /\ UNCHANGED <<k, spec0, ret, calls, secrets, cluster, readyOf, gate,
                   attempt, live, opCalls>>

\* the scheduler's tick for k: a suspended unit is only rescheduled at
\* interval, any other unit starts an attempt at the dependency gate
Tick ==
    /\ phase = "Idle"
    /\ opCalls' = {}
    /\ IF IsSuspended(k)
       THEN /\ outcome' = "Suspended"
            /\ requeue' = GetInterval(k)
            /\ UNCHANGED <<phase, gate, attempt>>
       ELSE /\ phase' = "Gating"
            /\ gate' = GateStart
            /\ attempt' = [NoAttempt EXCEPT
                             !.prev = IF attempt.result # "none"
                                      THEN attempt.result ELSE attempt.prev,
                             !.snapshotBefore = status.snapshot]
            /\ outcome' = "Running"
            /\ UNCHANGED requeue
    /\ UNCHANGED <<k, spec0, ret, calls, secrets, cluster, readyOf, status,
                   live>>

----------------------------------------------------------------------------
(* Dependency graphs of at most MaxUnits Konfigurations *)

UnitNames == <<"a", "b", "c", "d", "e", "f">>

\* the namespaced name of the i-th unit; k is the first
UnitKey(i) == [Namespace |-> IF i % 2 = 1 THEN "ns1" ELSE "ns2",
               Name |-> UnitNames[i]]

\* the reference a unit named from declares to the unit named to: the
\* namespace is left empty inside one namespace
RefTo(from, to) ==
    [Name |-> to.Name,
     Namespace |-> IF to.Namespace = from.Namespace THEN "" ELSE to.Namespace]

\* the elements of a set of numbers in increasing order
SortedSeq(T) ==
    CHOOSE q \in [1..Cardinality(T) -> T] :
        \A i, j \in 1..Cardinality(T) : i < j => q[i] < q[j]

\* the i-th unit, depending on the units numbered in T
Unit(i, T) ==
    [Namespace |-> UnitKey(i).Namespace, Name |-> UnitKey(i).Name,
     Generation |-> 1,
     Spec |-> [Interval |-> MetaDuration(1), RetryInterval |-> Nil,
               Timeout |-> Nil, KubeConfig |-> Nil,
               Path |-> "main.jsonnet", Variables |-> NoVariables,
               KubecfgArgs |-> <<>>, Prune |-> TRUE, Validate |-> TRUE,
               Suspend |-> FALSE, DiffStrategy |-> "subset",
               DependsOn |-> [j \in 1..Cardinality(T) |->
                                RefTo(UnitKey(i), UnitKey(SortedSeq(T)[j]))],
               SourceRef |-> Nil]]

\* the units other than k that exist, given the one that is missing (0: none)
Others(missing) == {i \in 2..MaxUnits : i # missing}

\* the cluster's Konfigurations for the dependency sets deps
ClusterOf(deps, missing) ==
    [key \in {UnitKey(i) : i \in Others(missing)} |->
        LET i == CHOOSE j \in Others(missing) : UnitKey(j) = key
        IN Unit(i, deps[i])]

\* the dependency sets a unit may declare
DepSets == {T \in SUBSET (1..MaxUnits) : Cardinality(T) <= MaxDeps}

\* any graph over the units; the second unit, the first one the walk from k
\* can meet, may be missing or not Ready
InitGate ==
    /\ \E deps \in [1..MaxUnits -> DepSets],
          second \in {"Ready", "NotReady", "Missing"} :
          /\ k = Unit(1, deps[1])
          /\ cluster = ClusterOf(deps, IF second = "Missing" THEN 2 ELSE 0)
          /\ readyOf = [key \in DOMAIN cluster |->
                          second = "Ready" \/ key # UnitKey(2)]
    /\ spec0 = k.Spec
    /\ ret = [op |-> "none", val |-> Nil]
    /\ calls = 0
    /\ secrets = [nn \in SecretKeys |-> Absent]
    /\ phase = "Idle"
    /\ gate = NoGate
    /\ attempt = NoAttempt
    /\ status = NoStatus
    /\ live = {}
    /\ opCalls = {}
    /\ outcome = "None"
    /\ requeue = 0

NextGate ==
    \/ Tick
    \/ GateStep
    \/ GateDone

SpecGate == InitGate /\ [][NextGate]_vars

----------------------------------------------------------------------------
(* Reconcile scheduler: render, diff, apply, prune, commit *)

Revisions == 1..MaxRev

\* the manifest set the renderer produces for a revision
Manifests(rev) == IF rev % 2 = 1 THEN {"D1", "S1"} ELSE {"D1"}

\* the content hash of a manifest set
Checksum(m) == (IF "D1" \in m THEN 1 ELSE 0) + (IF "S1" \in m THEN 2 ELSE 0)

\* the objects the Snapshot lists
Entries(snapshot) == IF snapshot = Nil THEN {} ELSE snapshot.entries

\* Revision Tracker: rendering is skipped when nothing changed since the last
\* attempt and that attempt was a Success
ShouldRender(rev) ==
    ~ /\ rev = status.lastAppliedRevision
      /\ status.observedGeneration = k.Generation
      /\ attempt.prev = "Success"

\* resolve the source's revision and render it
Render ==
    /\ phase = "Rendering"
    /\ \E rev \in Revisions, res \in {"ok", "transient", "fatal"} :
          IF ~ShouldRender(rev)
          THEN /\ res = "ok"
               /\ phase' = "Idle"
               /\ attempt' = [attempt EXCEPT !.rev = rev, !.result = "Success"]
               /\ outcome' = "Success"
               /\ requeue' = GetInterval(k)
          ELSE IF res = "ok"
          THEN /\ phase' = "Diffing"
               /\ attempt' = [attempt EXCEPT !.rev = rev,
                                             !.desired = Manifests(rev)]
               /\ UNCHANGED <<outcome, requeue>>
          ELSE /\ phase' = "Committing"
               /\ attempt' = [attempt EXCEPT
                                !.rev = rev,
                                !.result = IF res = "fatal" THEN "FatalFailure"
                                           ELSE "TransientFailure",
                                !.reason = "RenderFailed"]
               /\ UNCHANGED <<outcome, requeue>>
    /\ UNCHANGED <<k, spec0, ret, calls, secrets, cluster, readyOf, gate,
                   status, live, opCalls>>

\* Diff Engine: the operations that bring the cluster to the desired set
Diff ==
    /\ phase = "Diffing"
    /\ opCalls' = opCalls \cup {"Diff"}
    /\ attempt' = [attempt EXCEPT !.ops = attempt.desired \ live]
    /\ phase' = "Applying"
    /\ UNCHANGED <<k, spec0, ret, calls, secrets, cluster, readyOf, gate,
                   status, live, outcome, requeue>>

\* Apply Executor: the operations run under the deadline GetTimeout(k); some
\* may fail, and the deadline may expire with operations left
Apply ==
    /\ phase = "Applying"
    /\ opCalls' = opCalls \cup {"Apply"}
    /\ \E res \in {"ok", "transient", "fatal", "timeout"},
          done \in SUBSET attempt.ops :
          /\ res = "ok" => done = attempt.ops
          /\ res \in {"transient", "fatal"} => done # attempt.ops
          /\ live' = live \cup done
          /\ IF res = "ok"
             THEN /\ phase' = "Pruning"
                  /\ attempt' = [attempt EXCEPT !.apply = "ok"]
             ELSE /\ phase' = "Committing"
                  /\ attempt' = [attempt EXCEPT
                                   !.apply = res,
                                   !.result = IF res = "fatal"
                                              THEN "FatalFailure"
                                              ELSE "TransientFailure",
                                   !.reason = CASE res = "timeout" -> "Timeout"
                                                [] res = "fatal" -> "ValidationFailed"
                                                [] OTHER -> "ReconciliationFailed"]
    /\ UNCHANGED <<k, spec0, ret, calls, secrets, cluster, readyOf, gate,
                   status, outcome, requeue>>

\* Pruner: delete what the prior Snapshot lists and the desired set does not;
\* a no-op when prune is off
Prune ==
    /\ phase = "Pruning"
    /\ IF ~GCEnabled(k)
       THEN /\ attempt' = [attempt EXCEPT !.prune = "ok"]
            /\ UNCHANGED <<live, opCalls>>
       ELSE /\ opCalls' = opCalls \cup {"Prune"}
            /\ \E deleted \in SUBSET (Entries(status.snapshot) \ attempt.desired) :
                  /\ live' = live \ deleted
                  /\ attempt' =
                       [attempt EXCEPT
                          !.prune = IF deleted = Entries(status.snapshot) \ attempt.desired
                                    THEN "ok" ELSE "failed"]
    /\ phase' = "Committing"
    /\ UNCHANGED <<k, spec0, ret, calls, secrets, cluster, readyOf, gate,
                   status, outcome, requeue>>

\* whether the attempt ends with no outstanding failure of Apply or Prune
Succeeded(at) == at.apply = "ok" /\ at.prune = "ok"

Committed_SnapshotAlways(st, at, generation) ==
    [observedGeneration |-> generation,
     lastAppliedRevision |-> IF Succeeded(at) THEN at.rev
                             ELSE st.lastAppliedRevision,
     lastAttemptedRevision |-> at.rev,
     ready |-> IF at.apply = "ok" THEN "True" ELSE "False",
     reason |-> IF Succeeded(at) THEN "ReconciliationSucceeded"
                ELSE IF at.apply = "ok" THEN "PruneFailed" ELSE at.reason,
     snapshot |-> IF at.desired # {} \/ Succeeded(at)
                  THEN [checksum |-> Checksum(at.desired), entries |-> at.desired]
                  ELSE st.snapshot]

\* the Status an attempt commits, all fields in one update
Committed(st, at, generation) ==
    [observedGeneration |-> generation,
     lastAppliedRevision |-> IF Succeeded(at) THEN at.rev
                             ELSE st.lastAppliedRevision,
     lastAttemptedRevision |-> at.rev,
     ready |-> IF at.apply = "ok" THEN "True" ELSE "False",
     reason |-> IF Succeeded(at) THEN "ReconciliationSucceeded"
                ELSE IF at.apply = "ok" THEN "PruneFailed" ELSE at.reason,
     snapshot |-> IF Succeeded(at)
                  THEN [checksum |-> Checksum(at.desired), entries |-> at.desired]
                  ELSE st.snapshot]

\* Committing: write the Status once and compute the next requeue
Commit ==
    /\ phase = "Committing"
    /\ status' = Committed(status, attempt, k.Generation)
    /\ attempt' = [attempt EXCEPT
                     !.result = IF Succeeded(attempt) THEN "Success"
                                ELSE IF attempt.result = "none"
                                THEN "TransientFailure" ELSE attempt.result,
                     !.reason = IF Succeeded(attempt) THEN "ReconciliationSucceeded"
                                ELSE IF attempt.apply = "ok" THEN "PruneFailed"
                                ELSE attempt.reason]
    /\ outcome' = IF Succeeded(attempt) THEN "Success" ELSE "Failure"
    /\ requeue' = IF Succeeded(attempt) THEN GetInterval(k)
                  ELSE GetRetryInterval(k)
    /\ phase' = "Idle"
    /\ UNCHANGED <<k, spec0, ret, calls, secrets, cluster, readyOf, gate,
                   live, opCalls>>

\* the user sets or clears suspend; the generation is bumped
SetSuspend ==
    /\ k.Generation < MaxGen
    /\ k' = [k EXCEPT !.Spec.Suspend = ~k.Spec.Suspend,
                      !.Generation = k.Generation + 1]
    /\ UNCHANGED <<spec0, ret, calls, secrets, ctlVars>>

\* a unit alone, or depending on a second unit that is Ready or not and that
\* may depend on it in turn
InitReconcile ==
    /\ \E d1 \in {{}, {2}}, d2 \in {{}, {1}}, second \in {"Ready", "NotReady"},
          interval \in Durations, retry \in OptDurations,
          suspend \in BOOLEAN, prune \in BOOLEAN :
          /\ d1 = {} => (d2 = {} /\ second = "Ready")
          /\ k = [Unit(1, d1) EXCEPT !.Spec.Interval = MetaDuration(interval),
                                     !.Spec.RetryInterval = retry,
                                     !.Spec.Suspend = suspend,
                                     !.Spec.Prune = prune]
          /\ cluster = ClusterOf([i \in 1..MaxUnits |->
                                    IF i = 1 THEN d1
                                    ELSE IF i = 2 THEN d2 ELSE {}], 0)
          /\ readyOf = [key \in DOMAIN cluster |->
                          second = "Ready" \/ key # UnitKey(2)]
    /\ spec0 = k.Spec
    /\ ret = [op |-> "none", val |-> Nil]
    /\ calls = 0
    /\ secrets = [nn \in SecretKeys |-> Absent]
    /\ phase = "Idle"
    /\ gate = NoGate
    /\ attempt = NoAttempt
    /\ status = NoStatus
    /\ live = {}
    /\ opCalls = {}
    /\ outcome = "None"
    /\ requeue = 0

NextReconcile ==
    \/ Tick
    \/ GateStep
    \/ GateDone
    \/ Render
    \/ Diff
    \/ Apply
    \/ Prune
    \/ Commit
    \/ SetSuspend

SpecReconcile == InitReconcile /\ [][NextReconcile]_vars

----------------------------------------------------------------------------
(* Variables.AppendToArgs *)

VarNames == <<"x", "y", "z", "w">>
VarKeys == {VarNames[i] : i \in 1..MaxVars}
VarVals == {"1"}

\* map[string]string over the keys; a nil map is the empty one (both range
\* over nothing)
VarMaps == UNION {[S -> VarVals] : S \in SUBSET VarKeys}

\* Variables
VariablesSet == [ExtStr : VarMaps, ExtCode : VarMaps,
                 TLAStr : VarMaps, TLACode : VarMaps]

\* the args AppendToArgs is given
ArgLists == {<<>>, <<"show">>, <<"--tla-str", "x=1">>}

\* the orders in which a range over a map with key set S may visit it
Perms(S) ==
    {p \in [1..Cardinality(S) -> S] :
        \A i, j \in 1..Cardinality(S) : i # j => p[i] # p[j]}

\* the orders of the four range loops of one call
Orders(v) ==
    [ExtStr : Perms(DOMAIN v.ExtStr), ExtCode : Perms(DOMAIN v.ExtCode),
     TLAStr : Perms(DOMAIN v.TLAStr), TLACode : Perms(DOMAIN v.TLACode)]

\* fmt.Sprintf("%s=%s", key, val)
Sprintf(key, val) == key \o "=" \o val

\* for k, v := range m { args = append(args, flag, Sprintf(k, v)) }, the range
\* visiting the keys in the given order
RECURSIVE AppendEach(_, _, _, _)
AppendEach(args, flag, m, order) ==
    IF order = <<>> THEN args
    ELSE AppendEach(args \o <<flag, Sprintf(Head(order), m[Head(order)])>>,
                    flag, m, Tail(order))

AppendToArgs_CodeBeforeStr(v, args, ord) ==
    LET a1 == AppendEach(args, "--ext-code", v.ExtCode, ord.ExtCode)
        a2 == AppendEach(a1, "--ext-str", v.ExtStr, ord.ExtStr)
        a3 == AppendEach(a2, "--tla-str", v.TLAStr, ord.TLAStr)
    IN AppendEach(a3, "--tla-code", v.TLACode, ord.TLACode)

AppendToArgs(v, args, ord) ==
    LET a1 == AppendEach(args, "--ext-str", v.ExtStr, ord.ExtStr)
        a2 == AppendEach(a1, "--ext-code", v.ExtCode, ord.ExtCode)
        a3 == AppendEach(a2, "--tla-str", v.TLAStr, ord.TLAStr)
    IN AppendEach(a3, "--tla-code", v.TLACode, ord.TLACode)

\* k.GetVariables().AppendToArgs(args), for any args and any iteration order
\* of the maps. The function reads nothing but its receiver and args, so one
\* application per object is followed.
CallAppendToArgs ==
    /\ ret.op = "none"
    /\ GetVariables(k) # Nil
    /\ \E args \in ArgLists, ord \in Orders(GetVariables(k)) :
          ret' = [op |-> "AppendToArgs", args |-> args,
                  val |-> AppendToArgs(GetVariables(k), args, ord)]
    /\ UNCHANGED <<k, spec0, calls, secrets, ctlVars>>

InitArgs ==
    /\ \E v \in VariablesSet :
          k = [FetchKonfiguration("ns1") EXCEPT !.Spec.Variables = v]
    /\ spec0 = k.Spec
    /\ ret = [op |-> "none", val |-> Nil]
    /\ calls = 0
    /\ secrets = [nn \in SecretKeys |-> Absent]
    /\ InitIdle

NextArgs == CallAppendToArgs

SpecArgs == InitArgs /\ [][NextArgs]_vars

----------------------------------------------------------------------------
(* Properties of the accessors *)

\* C1: GetRetryInterval returns the configured retryInterval whenever one is
\* set (a zero duration included) and GetInterval() when it is not set; the
\* result depends on no other field.
C1_RetryIntervalOrInterval ==
    ret.op = "GetRetryInterval" =>
        ret.val = IF k.Spec.RetryInterval = Nil
                  THEN k.Spec.Interval.Duration
                  ELSE k.Spec.RetryInterval.Duration

\* GetRetryInterval has returned a retryInterval set to zero
C1_Witness ==
    /\ ret.op = "GetRetryInterval"
    /\ k.Spec.RetryInterval = MetaDuration(0)
    /\ k.Spec.Interval.Duration # 0
    /\ k.Spec.Timeout # Nil
    /\ ret.val = 0

\* C2: GetTimeout returns the configured timeout whenever one is set (a zero
\* duration included) and GetInterval() when it is not set; retryInterval
\* never influences the result.
C2_TimeoutOrInterval ==
    ret.op = "GetTimeout" =>
        ret.val = IF k.Spec.Timeout = Nil
                  THEN k.Spec.Interval.Duration
                  ELSE k.Spec.Timeout.Duration

\* GetTimeout has fallen back to interval with a different retryInterval set
C2_Witness ==
    /\ ret.op = "GetTimeout"
    /\ k.Spec.Timeout = Nil
    /\ k.Spec.RetryInterval # Nil
    /\ k.Spec.RetryInterval.Duration # k.Spec.Interval.Duration
    /\ ret.val = k.Spec.Interval.Duration

\* what GetSourceRef is to return for a Konfiguration in namespace ns that was
\* declared with sourceRef ref
ExpectedSourceRef(ns, ref) ==
    IF ref = Nil THEN Nil
    ELSE [Kind |-> ref.Kind, Name |-> ref.Name,
          Namespace |-> IF ref.Namespace = "" THEN ns ELSE ref.Namespace]

\* C4: GetSourceRef returns nil without a sourceRef; otherwise the sourceRef
\* with the Konfiguration's namespace when the declared one is empty and the
\* declared one otherwise, kind and name unchanged; every call, the first or a
\* later one, returns that same result.
C4_SourceRefNamespaceDefault ==
    ret.op = "GetSourceRef" =>
        ret.val = ExpectedSourceRef(k.Namespace, spec0.SourceRef)

\* GetSourceRef has been called a second time on a sourceRef declared without
\* a namespace
C4_Witness ==
    /\ ret.op = "GetSourceRef"
    /\ calls >= 2
    /\ spec0.SourceRef # Nil
    /\ spec0.SourceRef.Namespace = ""
    /\ ret.val.Namespace = k.Namespace

\* C5: a dependency reference with an empty namespace refers to the namespace
\* of the identity GetDependsOn returns, which is k.Namespace; a reference
\* with a declared namespace keeps it.
C5_DependencyNamespaceDefault ==
    ret.op = "GetDependsOn" =>
        /\ ret.val.id = [Namespace |-> k.Namespace, Name |-> k.Name]
        /\ ret.val.deps = spec0.DependsOn
        /\ \A i \in 1..Len(ret.val.deps) :
              LET d == ret.val.deps[i]
              IN DepKey(ret.val.id, d) =
                   [Namespace |-> IF d.Namespace = "" THEN k.Namespace
                                  ELSE d.Namespace,
                    Name |-> d.Name]

\* GetDependsOn has returned one reference without and one with a namespace
C5_Witness ==
    /\ ret.op = "GetDependsOn"
    /\ Len(ret.val.deps) = 2
    /\ ret.val.deps[1].Namespace = ""
    /\ ret.val.deps[2].Namespace = "ns2"
    /\ k.Namespace = "ns1"
    /\ DepKey(ret.val.id, ret.val.deps[1]).Namespace = "ns1"

\* C6: after any sequence of accessor calls every spec field, sourceRef.namespace
\* included, has the value it had before the calls.
C6_SpecNeverModified == k.Spec = spec0

----------------------------------------------------------------------------
(* Properties of KubeConfig.Fetch *)

\* the Secret the call was to read
Looked == secrets[[Name |-> k.Spec.KubeConfig.SecretRef.Name,
                   Namespace |-> ret.namespace]]

\* C3 as stated: Fetch fails exactly when the secret does not exist in the
\* namespace passed, has no data, or has no 'value' key, and otherwise returns
\* the content of 'value' with no error.
C3_ExactlyThreeFailures ==
    ret.op = "Fetch" =>
        IF \/ Looked = Absent
           \/ Looked.Data = Nil
           \/ "value" \notin DOMAIN Looked.Data
        THEN ret.err # "nil" /\ ret.val = ""
        ELSE ret.err = "nil" /\ ret.val = Looked.Data["value"]

\* C3 amended: Fetch fails when the client's Get returns an error (the secret
\* does not exist in the namespace passed, or any other error of the client),
\* when the secret has no data and when the data has no 'value' key; otherwise
\* it returns the content of 'value' with no error. An error always comes with
\* the empty string, and the lookup is in the namespace the caller passed.
C3_FetchOutcomes ==
    ret.op = "Fetch" =>
        /\ ret.nn = [Name |-> k.Spec.KubeConfig.SecretRef.Name,
                     Namespace |-> ret.namespace]
        /\ ret.err # "nil" => ret.val = ""
        /\ IF \/ ret.fault # "none"
              \/ Looked = Absent
              \/ Looked.Data = Nil
              \/ "value" \notin DOMAIN Looked.Data
           THEN ret.err # "nil"
           ELSE ret.err = "nil" /\ ret.val = Looked.Data["value"]

\* Fetch has failed on a secret that exists only in the Konfiguration's own
\* namespace, not in the namespace passed
C3_Witness ==
    /\ ret.op = "Fetch"
    /\ ret.fault = "none"
    /\ ret.namespace # k.Namespace
    /\ Looked = Absent
    /\ secrets[[Name |-> "kc", Namespace |-> k.Namespace]] # Absent
    /\ ret.err = "NotFound"
    /\ ret.val = ""

----------------------------------------------------------------------------
(* Properties of the dependency gate *)

\* the units that exist: k and the cluster's
Existing == {[Namespace |-> k.Namespace, Name |-> k.Name]} \cup DOMAIN cluster

\* the declared dependsOn of an existing unit
DeclaredDeps(u) ==
    IF u = [Namespace |-> k.Namespace, Name |-> k.Name]
    THEN k.Spec.DependsOn
    ELSE cluster[u].Spec.DependsOn

\* the units an existing unit u refers to
Succ(u) ==
    {[Namespace |-> IF DeclaredDeps(u)[i].Namespace = "" THEN u.Namespace
                    ELSE DeclaredDeps(u)[i].Namespace,
      Name |-> DeclaredDeps(u)[i].Name] : i \in 1..Len(DeclaredDeps(u))}

\* the units reachable from the units of S along references (S included)
RECURSIVE ReachFrom(_)
ReachFrom(S) ==
    LET more == S \cup UNION {Succ(u) : u \in S \cap Existing}
    IN IF more = S THEN S ELSE ReachFrom(more)

\* u lies on a cycle of references
OnCycle(u) == u \in Existing /\ u \in ReachFrom(Succ(u))

\* a cycle is reachable from k
CycleReachable ==
    \E u \in ReachFrom({[Namespace |-> k.Namespace, Name |-> k.Name]}) :
        OnCycle(u)

\* the number of references declared by the existing units
NumRefs ==
    Cardinality({<<u, i>> \in Existing \X (1..MaxUnits) :
                    i <= Len(DeclaredDeps(u))})

\* C10: readiness resolution terminates (the walk always has a next step
\* until it returns, and returns within a number of steps bounded by the size
\* of the graph), and for any graph with a cycle reachable from the
\* requesting unit it returns Cycle.
C10_GateTerminatesWithCycle ==
    /\ gate.steps <= NumRefs + 2 * Cardinality(Existing)
    /\ (phase = "Gating" /\ gate.result = "none") =>
          (gate.stack # <<>> /\ ENABLED GateStep)
    /\ (gate.result # "none" /\ CycleReachable) => gate.result = "Cycle"

\* the gate has returned Cycle for a cycle that does not pass through k,
\* found two levels down, after an entry of k that is not Ready
C10_Witness ==
    /\ gate.result = "Cycle"
    /\ Len(gate.stack) = 3
    /\ gate.notReady
    /\ ~OnCycle([Namespace |-> k.Namespace, Name |-> k.Name])

----------------------------------------------------------------------------
(* Properties of the reconcile scheduler *)

\* C7: while suspend is true, a scheduler tick calls none of Diff, Apply and
\* Prune, modifies no Status field and leaves the cluster alone; it only
\* reschedules the unit at interval, however many ticks there are.
C7_SuspendNoOp ==
    [][(phase = "Idle" /\ k.Spec.Suspend) =>
          /\ phase' = "Idle"
          /\ status' = status
          /\ live' = live
          /\ opCalls' \subseteq opCalls
          /\ (outcome' # outcome \/ requeue' # requeue) =>
                (outcome' = "Suspended" /\ requeue' = k.Spec.Interval.Duration)]_vars

\* a tick has found the unit suspended after an earlier attempt had applied a
\* revision, and has rescheduled it at interval, not at retryInterval
C7_Witness ==
    /\ outcome = "Suspended"
    /\ k.Spec.Suspend
    /\ status.snapshot # Nil
    /\ opCalls = {}
    /\ requeue = k.Spec.Interval.Duration
    /\ k.Spec.RetryInterval # Nil
    /\ k.Spec.RetryInterval.Duration # requeue

\* the ways a tick ends without success
Failed == {"Failure", "Gated"}

\* C8: the Snapshot is replaced only by the commit of an attempt in which
\* Apply and Prune both report no failure; after an attempt that ends with any
\* failure the Snapshot equals the Snapshot before the attempt.
C8_SnapshotMonotonic ==
    /\ [][status'.snapshot # status.snapshot =>
            (phase = "Committing" /\ attempt.apply = "ok" /\ attempt.prune = "ok")]_vars
    /\ [](outcome \in Failed => status.snapshot = attempt.snapshotBefore)

\* an attempt has failed after applying an object that the Snapshot of the
\* last successful attempt does not list
C8_Witness ==
    /\ outcome = "Failure"
    /\ status.snapshot # Nil
    /\ status.snapshot = attempt.snapshotBefore
    /\ ~(live \subseteq status.snapshot.entries)

\* retryInterval, or interval when it is not set
RetryDelay ==
    IF k.Spec.RetryInterval = Nil THEN k.Spec.Interval.Duration
    ELSE k.Spec.RetryInterval.Duration

\* C9 as stated: the delay is interval after a success and retryInterval
\* after an attempt that ends on any failure path, so without a retryInterval
\* every attempt is requeued at interval.
C9_RetryIntervalOnAnyFailure ==
    /\ outcome = "Success" => requeue = k.Spec.Interval.Duration
    /\ outcome \in Failed => requeue = RetryDelay
    /\ (k.Spec.RetryInterval = Nil /\ outcome \in Failed \cup {"Success"}) =>
          requeue = k.Spec.Interval.Duration

\* C9 amended: the delay is interval after a success, also the first one after
\* a failure, and retryInterval after a render, apply, timeout or prune
\* failure; an attempt the dependency gate stops is requeued at the gate's
\* fixed backoff. Without a retryInterval every attempt that passes the gate
\* is requeued at interval.
C9_RequeueDelay ==
    /\ outcome = "Success" => requeue = k.Spec.Interval.Duration
    /\ outcome = "Failure" => requeue = RetryDelay
    /\ outcome = "Gated" => requeue = GateBackoff
    /\ (k.Spec.RetryInterval = Nil /\ outcome \in {"Failure", "Success"}) =>
          requeue = k.Spec.Interval.Duration

\* an attempt has succeeded right after a failed one and is requeued at
\* interval, which differs from retryInterval
C9_Witness ==
    /\ outcome = "Success"
    /\ attempt.prev \in {"TransientFailure", "FatalFailure"}
    /\ k.Spec.RetryInterval # Nil
    /\ k.Spec.RetryInterval.Duration # k.Spec.Interval.Duration
    /\ requeue = k.Spec.Interval.Duration

----------------------------------------------------------------------------
(* Properties of Variables.AppendToArgs *)

\* the four mappings in the order of their groups, with their flags
Groups ==
    <<[flag |-> "--ext-str", m |-> k.Spec.Variables.ExtStr],
      [flag |-> "--ext-code", m |-> k.Spec.Variables.ExtCode],
      [flag |-> "--tla-str", m |-> k.Spec.Variables.TLAStr],
      [flag |-> "--tla-code", m |-> k.Spec.Variables.TLACode]>>

\* the number of entries of the i-th group
GroupSize(i) == Cardinality(DOMAIN Groups[i].m)

\* the number of entries of the groups before the g-th
RECURSIVE EntriesBefore(_)
EntriesBefore(g) ==
    IF g = 1 THEN 0 ELSE EntriesBefore(g - 1) + GroupSize(g - 1)

\* the position in the result of the flag of the j-th pair of the g-th group
FlagAt(g, j) == Len(ret.args) + 2 * (EntriesBefore(g) + j) - 1

\* C11: the result keeps args as its prefix and appends two elements per
\* entry, the group's flag and then key=value; the groups come in the order
\* extStr, extCode, tlaStr, tlaCode; inside a group the pairs are those of the
\* mapping, each once; with no entry the result is args. The order inside a
\* group is not fixed: a call may append the pair of any key of a group first.
C11_AppendToArgs ==
    /\ ret.op = "none" => \A g \in 1..4 : \A key \in DOMAIN Groups[g].m :
          ENABLED (/\ CallAppendToArgs
                   /\ ret'.args = <<>>
                   /\ ret'.val[2 * EntriesBefore(g) + 2] =
                         key \o "=" \o Groups[g].m[key])
    /\ ret.op = "AppendToArgs" =>
        /\ Len(ret.val) = Len(ret.args) + 2 * EntriesBefore(5)
        /\ SubSeq(ret.val, 1, Len(ret.args)) = ret.args
        /\ \A g \in 1..4 :
              /\ \A j \in 1..GroupSize(g) :
                    ret.val[FlagAt(g, j)] = Groups[g].flag
              /\ \A key \in DOMAIN Groups[g].m :
                    Cardinality({j \in 1..GroupSize(g) :
                        ret.val[FlagAt(g, j) + 1] =
                            key \o "=" \o Groups[g].m[key]}) = 1
        /\ EntriesBefore(5) = 0 => ret.val = ret.args

\* a call on non-empty args with entries in all four mappings has appended
\* the pair of y before the pair of x in the first group
C11_Witness ==
    /\ ret.op = "AppendToArgs"
    /\ ret.args = <<"--tla-str", "x=1">>
    /\ \A g \in 1..4 : GroupSize(g) >= 1
    /\ GroupSize(1) = 2
    /\ ret.val[4] = "y=1"
    /\ ret.val[6] = "x=1"
    /\ ret.val[Len(ret.val) - 1] = "--tla-code"

====
